---- MODULE Spec2Model ----
(***************************************************************************)
(* The application wizard (ApplicationForm): a six-section form whose      *)
(* fields are held by a form library with a schema resolver, a tab strip,  *)
(* Next/Previous buttons, an activities list, a field-of-interest selector *)
(* and a simulated submission (a 1500 ms timer).                           *)
(*                                                                         *)
(* Strings are sequences of one-character strings, so that length checks   *)
(* and trimming are computed as the code computes them.                    *)
(***************************************************************************)
EXTENDS Integers, Sequences, FiniteSets, TLC

(***************************************************************************)
(* Bounds of the model                                                     *)
(***************************************************************************)
\* single typing/toggling events explored on top of whole-section fills
MaxEdits == 1
\* runs of onSubmit explored
MaxSubmits == 2

(***************************************************************************)
(* Program constants                                                       *)
(***************************************************************************)
MaxActivities == 5
MaxInterests == 3

FIELDS_OF_INTEREST ==
  << "Biology", "Business", "Chemistry", "Computer Science", "Ecology",
     "Economics", "Education", "Engineering", "Gender Studies", "History",
     "Mathematics", "Media Studies", "Neuroscience", "Physics",
     "Political Science", "Psychology", "Sociology" >>

\* the order of the tab strip
TabOrder ==
  << "personal", "academic", "parent", "research", "extracurricular",
     "additional" >>

Tabs == { TabOrder[i] : i \in 1..Len(TabOrder) }

TabIndex(tab) == CHOOSE i \in 1..Len(TabOrder) : TabOrder[i] = tab

\* the string-valued fields of the form (defaultValues), all "" at first
StringFields ==
  { "email", "fullName", "city", "country", "phone",
    "ieltsScore", "satScore", "schoolName", "grade", "gpa",
    "parentFullName", "parentPhone",
    "researchInterest", "motivation", "additionalInfo" }

AllFields == StringFields \cup { "fieldsOfInterest", "financialAid" }

(***************************************************************************)
(* Strings                                                                 *)
(***************************************************************************)
Chars(n, c) == [i \in 1..n |-> c]

IsSpace(c) == c = " "

RECURSIVE TrimStart(_)
TrimStart(s) ==
  IF s # <<>> /\ IsSpace(Head(s)) THEN TrimStart(Tail(s)) ELSE s

RECURSIVE TrimEnd(_)
TrimEnd(s) ==
  IF s # <<>> /\ IsSpace(s[Len(s)])
    THEN TrimEnd(SubSeq(s, 1, Len(s) - 1))
    ELSE s

\* String.prototype.trim
Trim(s) == TrimEnd(TrimStart(s))

(***************************************************************************)
(* formSchema                                                              *)
(***************************************************************************)
\* z.string().min(n): the least length each string field must have
MinLength(f) ==
  CASE f \in { "fullName", "city", "country", "schoolName", "parentFullName" } -> 2
    [] f \in { "phone", "parentPhone" } -> 10
    [] f \in { "ieltsScore", "satScore", "grade", "gpa" } -> 1
    [] f \in { "researchInterest", "motivation" } -> 50
    [] OTHER -> 0

\* z.string().email(): one "@", a non-empty local part without blanks, and a
\* domain of dot-separated labels ending in a label of two or more characters
IsEmail(s) ==
  \E at \in 1..Len(s) :
    /\ s[at] = "@"
    /\ \A i \in 1..Len(s) : (s[i] = "@") => (i = at)
    /\ \A i \in 1..Len(s) : ~IsSpace(s[i])
    /\ at > 1
    /\ s[1] # "."
    /\ s[at - 1] # "."
    /\ \E dot \in (at + 2)..(Len(s) - 2) :
         /\ s[dot] = "."
         /\ \A i \in (dot + 1)..Len(s) : s[i] # "."
    /\ s[at + 1] # "."

\* the message of each field's rule
Message(f) ==
  CASE f = "email" -> "Invalid email address"
    [] f = "fullName" -> "Full name is required"
    [] f = "city" -> "City is required"
    [] f = "country" -> "Country is required"
    [] f = "phone" -> "Valid phone number is required"
    [] f = "ieltsScore" -> "IELTS score is required"
    [] f = "satScore" -> "SAT score is required"
    [] f = "schoolName" -> "School name is required"
    [] f = "grade" -> "Grade is required"
    [] f = "gpa" -> "GPA is required"
    [] f = "parentFullName" -> "Parent's full name is required"
    [] f = "parentPhone" -> "Valid parent phone number is required"
    [] f = "researchInterest" -> "Research interest should be at least 50 characters"
    [] f = "motivation" -> "Motivation statement should be at least 50 characters"
    [] OTHER -> ""

\* the issue the schema raises for a string field, "" when it raises none
\* (additionalInfo is optional and has no rule)
StringIssue(f, s) ==
  CASE f = "email" -> IF IsEmail(s) THEN "" ELSE Message(f)
    [] f = "additionalInfo" -> ""
    [] OTHER -> IF Len(s) >= MinLength(f) THEN "" ELSE Message(f)

\* z.array(z.string()).min(1).max(3)
InterestsIssue(sel) ==
  IF Len(sel) < 1 THEN "Select at least one field of interest"
  ELSE IF Len(sel) > MaxInterests THEN "You can select up to 3 fields of interest"
  ELSE ""

(***************************************************************************)
(* State                                                                   *)
(***************************************************************************)
VARIABLES
  activeTab,         \* useState("personal")
  isSubmitting,      \* useState(false)
  extracurriculars,  \* useState<string[]>([])
  newActivity,       \* useState("")
  values,            \* the form's string field values
  fieldsOfInterest,  \* the form's fieldsOfInterest value
  financialAid,      \* the form's financialAid value
  errors,            \* form.formState.errors as last rendered: field -> message
  isSubmitted,       \* the form library's formState.isSubmitted
  pc,                \* "idle", or "validating" while a form.trigger is unresolved
  triggerNames,      \* the field names of the unresolved form.trigger
  timers,            \* the pending setTimeout callbacks of onSubmit, oldest first
  console,           \* what the completed callbacks logged, oldest first
  lastToast,         \* the title of the latest toast, "" when none was raised
  nSubmits,          \* runs of onSubmit so far
  editsLeft,         \* single typing/toggling events still explored
  lastEvent          \* the latest event handled

vars ==
  << activeTab, isSubmitting, extracurriculars, newActivity, values,
     fieldsOfInterest, financialAid, errors, isSubmitted, pc, triggerNames,
     timers, console, lastToast, nSubmits, editsLeft, lastEvent >>

\* the empty formState.errors
NoErrors == [f \in {} |-> ""]

\* defaultValues of useForm
DefaultValues == [f \in StringFields |-> <<>>]

\* the issue the schema raises for field f of the values (vals, sel)
IssueOf(f, vals, sel) ==
  IF f = "fieldsOfInterest" THEN InterestsIssue(sel)
  ELSE IF f \in StringFields THEN StringIssue(f, vals[f])
  ELSE ""

\* the issue the schema raises for a field of the current values
FieldIssue(f) == IssueOf(f, values, fieldsOfInterest)

\* zodResolver(formSchema) on the current values: field -> message
SchemaErrors ==
  [f \in { g \in AllFields : FieldIssue(g) # "" } |-> FieldIssue(f)]

\* an event: its kind and, where it has one, its argument
Event(kind, arg) == [kind |-> kind, arg |-> arg]

Init ==
  /\ activeTab = "personal"
  /\ isSubmitting = FALSE
  /\ extracurriculars = <<>>
  /\ newActivity = <<>>
  /\ values = DefaultValues
  /\ fieldsOfInterest = <<>>
  /\ financialAid = FALSE
  /\ errors = NoErrors
  /\ isSubmitted = FALSE
  /\ pc = "idle"
  /\ triggerNames = {}
  /\ timers = <<>>
  /\ console = <<>>
  /\ lastToast = ""
  /\ nSubmits = 0
  /\ editsLeft = MaxEdits
  /\ lastEvent = Event("mount", "")

(***************************************************************************)
(* What the user can type                                                  *)
(***************************************************************************)
\* the values of the spec's scenario, and like ones for the other fields
ValidValue(f) ==
  CASE f = "email" -> << "a", "@", "b", ".", "c", "o", "m" >>
    [] f = "fullName" -> << "J", "o", "h", "n", " ", "D", "o", "e" >>
    [] f = "city" -> << "A", "l", "m", "a", "t", "y" >>
    [] f = "country" ->
         << "K", "a", "z", "a", "k", "h", "s", "t", "a", "n" >>
    [] f = "phone" ->
         << "+", "7", "7", "0", "1", "1", "2", "3", "4", "5", "6", "7" >>
    [] f = "parentPhone" ->
         << "+", "7", "7", "0", "1", "7", "6", "5", "4", "3", "2", "1" >>
    [] f = "additionalInfo" -> <<>>
    [] OTHER -> Chars(MinLength(f), "x")

\* the values a single typing event may leave in a field: empty, valid, one
\* character short of the rule, and blanks only
FieldInputs(f) ==
  IF f = "email"
    THEN { <<>>, ValidValue(f), << "a", "@", "b" >>, << " " >> }
    ELSE { <<>>, ValidValue(f), Chars(MinLength(f), " ") }
           \cup (IF MinLength(f) > 1 THEN { Chars(MinLength(f) - 1, "x") } ELSE {})
           \cup (IF f = "additionalInfo" THEN { << "x" >> } ELSE {})

\* the values a single typing event may leave in the new-activity input
ActivityInputs ==
  { <<>>, << " " >>, << "a" >>, << " ", "b", " " >> }

\* the checkboxes the user tries: one more than may be selected
FieldsTried == { "Biology", "Business", "Chemistry", "Computer Science" }

(***************************************************************************)
(* The sections: what each tab renders and what its buttons name           *)
(***************************************************************************)
\* the string inputs each TabsContent renders (only the active one is mounted)
TabInputs(tab) ==
  CASE tab = "personal" -> { "email", "fullName", "city", "country", "phone" }
    [] tab = "academic" ->
         { "ieltsScore", "satScore", "schoolName", "grade", "gpa" }
    [] tab = "parent" -> { "parentFullName", "parentPhone" }
    [] tab = "research" -> { "researchInterest" }
    [] tab = "extracurricular" -> {}
    [] tab = "additional" -> { "motivation", "additionalInfo" }

\* the names each Next button passes to form.trigger (none on Activities)
TriggerFields(tab) ==
  CASE tab = "personal" -> { "email", "fullName", "city", "country", "phone" }
    [] tab = "academic" ->
         { "ieltsScore", "satScore", "schoolName", "grade", "gpa" }
    [] tab = "parent" -> { "parentFullName", "parentPhone" }
    [] tab = "research" -> { "fieldsOfInterest", "researchInterest" }
    [] OTHER -> {}

\* PreviousTarget with every Previous button leading to the first section
PreviousTargetFirst(tab) == "personal"

\* the setActiveTab target of each Previous button
PreviousTarget(tab) ==
  CASE tab = "academic" -> "personal"
    [] tab = "parent" -> "academic"
    [] tab = "research" -> "parent"
    [] tab = "extracurricular" -> "research"
    [] tab = "additional" -> "extracurricular"

(***************************************************************************)
(* The handlers' computations                                              *)
(***************************************************************************)
\* nextTab with the Personal branch naming the wrong target, "parent"
nextTabWrongTarget(tab, errs, current) ==
  CASE tab = "personal" ->
         IF \A field \in { "email", "fullName", "city", "country", "phone" } :
              field \notin DOMAIN errs
           THEN "parent" ELSE current
    [] tab = "academic" ->
         IF \A field \in { "ieltsScore", "satScore", "schoolName", "grade", "gpa" } :
              field \notin DOMAIN errs
           THEN "parent" ELSE current
    [] tab = "parent" ->
         IF \A field \in { "parentFullName", "parentPhone" } :
              field \notin DOMAIN errs
           THEN "research" ELSE current
    [] tab = "research" ->
         IF \A field \in { "fieldsOfInterest", "researchInterest" } :
              field \notin DOMAIN errs
           THEN "extracurricular" ELSE current
    [] tab = "extracurricular" -> "additional"
    [] OTHER -> current

\* nextTab(tab) reading the rendered formState.errors: the new activeTab
nextTab(tab, errs, current) ==
  CASE tab = "personal" ->
         IF \A field \in { "email", "fullName", "city", "country", "phone" } :
              field \notin DOMAIN errs
           THEN "academic" ELSE current
    [] tab = "academic" ->
         IF \A field \in { "ieltsScore", "satScore", "schoolName", "grade", "gpa" } :
              field \notin DOMAIN errs
           THEN "parent" ELSE current
    [] tab = "parent" ->
         IF \A field \in { "parentFullName", "parentPhone" } :
              field \notin DOMAIN errs
           THEN "research" ELSE current
    [] tab = "research" ->
         IF \A field \in { "fieldsOfInterest", "researchInterest" } :
              field \notin DOMAIN errs
           THEN "extracurricular" ELSE current
    [] tab = "extracurricular" -> "additional"
    [] OTHER -> current

\* ErrorsAfter with the whole error object replaced by the schema's result,
\* as a validation of every field would leave it
ErrorsAfterAll(names, errs, vals, sel) ==
  [f \in { g \in AllFields : IssueOf(g, vals, sel) # "" } |-> IssueOf(f, vals, sel)]

\* the formState.errors after a validation of `names` resolves: each name's
\* entry is set to its issue or removed, every other entry is kept
ErrorsAfter(names, errs, vals, sel) ==
  [f \in (DOMAIN errs \ names) \cup { n \in names : IssueOf(n, vals, sel) # "" } |->
     IF f \in names THEN IssueOf(f, vals, sel) ELSE errs[f]]

\* the formState.errors after a field's onChange: before the first submit
\* attempt (mode onSubmit) nothing is validated, after it (reValidateMode
\* onChange) the changed field is
ErrorsAfterChange(names, vals, sel) ==
  IF isSubmitted THEN ErrorsAfter(names, errors, vals, sel) ELSE errors

\* addExtracurricular without the capacity test
addExtracurricularUnbounded(list, buffer) ==
  IF Trim(buffer) # <<>>
    THEN [list |-> Append(list, Trim(buffer)), buffer |-> <<>>]
    ELSE [list |-> list, buffer |-> buffer]

\* addExtracurricular appending the text as typed, not trimmed
addExtracurricularUntrimmed(list, buffer) ==
  IF Trim(buffer) # <<>> /\ Len(list) < MaxActivities
    THEN [list |-> Append(list, buffer), buffer |-> <<>>]
    ELSE [list |-> list, buffer |-> buffer]

\* addExtracurricular: the new list and the new input buffer
addExtracurricular(list, buffer) ==
  IF Trim(buffer) # <<>> /\ Len(list) < MaxActivities
    THEN [list |-> Append(list, Trim(buffer)), buffer |-> <<>>]
    ELSE [list |-> list, buffer |-> buffer]

\* removeExtracurricular dropping the last entry whatever the index
removeExtracurricularLast(list, index) ==
  IF list = <<>> THEN list ELSE SubSeq(list, 1, Len(list) - 1)

\* removeExtracurricular(index), index counted from 0 as in the code
removeExtracurricular(list, index) ==
  LET keep == { i \in 1..Len(list) : i - 1 # index }
      pos(k) == CHOOSE i \in keep : Cardinality({ j \in keep : j <= i }) = k
  IN  [k \in 1..Cardinality(keep) |-> list[pos(k)]]

\* onCheckedChange rejecting a fourth field without a toast
onCheckedChangeSilent(currentValues, field, checked) ==
  IF checked /\ Len(currentValues) < MaxInterests
    THEN [value |-> Append(currentValues, field), toast |-> ""]
  ELSE IF checked /\ Len(currentValues) >= MaxInterests
    THEN [value |-> currentValues, toast |-> ""]
  ELSE [value |-> SelectSeq(currentValues, LAMBDA v : v # field), toast |-> ""]

\* onCheckedChange putting a newly ticked field first
onCheckedChangePrepends(currentValues, field, checked) ==
  IF checked /\ Len(currentValues) < MaxInterests
    THEN [value |-> << field >> \o currentValues, toast |-> ""]
  ELSE IF checked /\ Len(currentValues) >= MaxInterests
    THEN [value |-> currentValues, toast |-> "Maximum Selection Reached"]
  ELSE [value |-> SelectSeq(currentValues, LAMBDA v : v # field), toast |-> ""]

\* the fieldsOfInterest Checkbox's onCheckedChange: the new value and the
\* toast it raises ("" for none)
onCheckedChange(currentValues, field, checked) ==
  IF checked /\ Len(currentValues) < MaxInterests
    THEN [value |-> Append(currentValues, field), toast |-> ""]
  ELSE IF checked /\ Len(currentValues) >= MaxInterests
    THEN [value |-> currentValues, toast |-> "Maximum Selection Reached"]
  ELSE [value |-> SelectSeq(currentValues, LAMBDA v : v # field), toast |-> ""]

\* value?.includes(field)
Includes(seq, x) == \E i \in 1..Len(seq) : seq[i] = x

\* formData of onSubmit: the validated values and the activities list
FormData(list) ==
  [values |-> values, fieldsOfInterest |-> fieldsOfInterest,
   financialAid |-> financialAid, extracurriculars |-> list]

(***************************************************************************)
(* Typing and toggling                                                     *)
(***************************************************************************)
\* field.onChange of a mounted string input
ChangeField(f, v) ==
  /\ pc = "idle"
  /\ editsLeft > 0
  /\ f \in TabInputs(activeTab)
  /\ v # values[f]
  /\ values' = [values EXCEPT ![f] = v]
  /\ errors' = ErrorsAfterChange({f}, values', fieldsOfInterest)
  /\ editsLeft' = editsLeft - 1
  /\ lastEvent' = Event("change", f)
  /\ UNCHANGED << activeTab, isSubmitting, extracurriculars, newActivity,
                  fieldsOfInterest, financialAid, isSubmitted, pc,
                  triggerNames, timers, console, lastToast, nSubmits >>

\* the user fills in the active section: field.onChange with a valid value on
\* each of its string inputs, and one checkbox ticked if none is. The sections
\* are filled in from the first to the last: the ones before are filled in
FillSection ==
  /\ pc = "idle"
  /\ TabInputs(activeTab) # {}
  /\ \A i \in 1..(TabIndex(activeTab) - 1) :
       \A f \in TabInputs(TabOrder[i]) \cup TriggerFields(TabOrder[i]) :
         FieldIssue(f) = ""
  /\ values' = [f \in StringFields |->
                  IF f \in TabInputs(activeTab) THEN ValidValue(f) ELSE values[f]]
  /\ fieldsOfInterest' =
       IF activeTab = "research" /\ fieldsOfInterest = <<>>
         THEN onCheckedChange(fieldsOfInterest, FIELDS_OF_INTEREST[1], TRUE).value
         ELSE fieldsOfInterest
  /\ \/ values' # values
     \/ fieldsOfInterest' # fieldsOfInterest
  /\ errors' = ErrorsAfterChange(
                 TabInputs(activeTab) \cup
                   (IF activeTab = "research" THEN {"fieldsOfInterest"} ELSE {}),
                 values', fieldsOfInterest')
  /\ lastEvent' = Event("fill", "")
  /\ UNCHANGED << activeTab, isSubmitting, extracurriculars, newActivity,
                  financialAid, isSubmitted, pc, triggerNames, timers, console,
                  lastToast, nSubmits, editsLeft >>

\* a click on the checkbox of `field`: onCheckedChange(checked), where checked
\* is the opposite of what the box shows
ToggleInterest(field) ==
  /\ pc = "idle"
  /\ editsLeft > 0
  /\ activeTab = "research"
  /\ LET r == onCheckedChange(fieldsOfInterest, field,
                              ~Includes(fieldsOfInterest, field))
     IN  /\ fieldsOfInterest' = r.value
         /\ lastToast' = IF r.toast # "" THEN r.toast ELSE lastToast
         /\ errors' = IF r.toast # "" THEN errors
                      ELSE ErrorsAfterChange({"fieldsOfInterest"}, values, r.value)
  /\ editsLeft' = editsLeft - 1
  /\ lastEvent' = Event("toggle", field)
  /\ UNCHANGED << activeTab, isSubmitting, extracurriculars, newActivity,
                  values, financialAid, isSubmitted, pc, triggerNames, timers,
                  console, nSubmits >>

\* the financialAid checkbox: onCheckedChange = field.onChange
ToggleFinancialAid ==
  /\ pc = "idle"
  /\ editsLeft > 0
  /\ activeTab = "additional"
  /\ financialAid' = ~financialAid
  /\ errors' = ErrorsAfterChange({"financialAid"}, values, fieldsOfInterest)
  /\ editsLeft' = editsLeft - 1
  /\ lastEvent' = Event("aid", "")
  /\ UNCHANGED << activeTab, isSubmitting, extracurriculars, newActivity,
                  values, fieldsOfInterest, isSubmitted, pc, triggerNames,
                  timers, console, lastToast, nSubmits >>

\* onChange of the new-activity input (disabled once the list is full)
ChangeNewActivity(v) ==
  /\ pc = "idle"
  /\ editsLeft > 0
  /\ activeTab = "extracurricular"
  /\ Len(extracurriculars) < MaxActivities
  /\ v # newActivity
  /\ newActivity' = v
  /\ editsLeft' = editsLeft - 1
  /\ lastEvent' = Event("typeActivity", "")
  /\ UNCHANGED << activeTab, isSubmitting, extracurriculars, values,
                  fieldsOfInterest, financialAid, errors, isSubmitted, pc,
                  triggerNames, timers, console, lastToast, nSubmits >>

\* the X button of the activity at `index` (from 0)
RemoveActivity(index) ==
  /\ pc = "idle"
  /\ activeTab = "extracurricular"
  /\ index \in 0..(Len(extracurriculars) - 1)
  /\ extracurriculars' = removeExtracurricular(extracurriculars, index)
  /\ lastEvent' = Event("remove", index)
  /\ UNCHANGED << activeTab, isSubmitting, newActivity, values,
                  fieldsOfInterest, financialAid, errors, isSubmitted, pc,
                  triggerNames, timers, console, lastToast, nSubmits, editsLeft >>

(***************************************************************************)
(* Navigation                                                              *)
(***************************************************************************)
\* onValueChange with the gate of the Next buttons: the section being left
\* must be valid
onValueChangeGated(tab, current) ==
  IF \A f \in TriggerFields(current) : FieldIssue(f) = "" THEN tab ELSE current

\* Tabs onValueChange={setActiveTab}: the value a click on a TabsTrigger sets
onValueChange(tab, current) == tab

\* a click on the TabsTrigger of another tab
TabClick(tab) ==
  /\ pc = "idle"
  /\ tab \in Tabs
  /\ tab # activeTab
  /\ activeTab' = onValueChange(tab, activeTab)
  /\ lastEvent' = Event("tab", tab)
  /\ UNCHANGED << isSubmitting, extracurriculars, newActivity, values,
                  fieldsOfInterest, financialAid, errors, isSubmitted, pc,
                  triggerNames, timers, console, lastToast, nSubmits, editsLeft >>

\* a click on the Previous button of the active section
PreviousClick ==
  /\ pc = "idle"
  /\ activeTab # "personal"
  /\ activeTab' = PreviousTarget(activeTab)
  /\ lastEvent' = Event("previous", "")
  /\ UNCHANGED << isSubmitting, extracurriculars, newActivity, values,
                  fieldsOfInterest, financialAid, errors, isSubmitted, pc,
                  triggerNames, timers, console, lastToast, nSubmits, editsLeft >>

\* a click on the Next button of the active section: form.trigger(names) is
\* called and not awaited, then nextTab reads the errors rendered before it
NextClick ==
  /\ pc = "idle"
  /\ activeTab # "additional"
  /\ triggerNames' = TriggerFields(activeTab)
  /\ pc' = IF TriggerFields(activeTab) # {} THEN "validating" ELSE "idle"
  /\ activeTab' = nextTab(activeTab, errors, activeTab)
  /\ lastEvent' = Event("next", "")
  /\ UNCHANGED << isSubmitting, extracurriculars, newActivity, values,
                  fieldsOfInterest, financialAid, errors, isSubmitted, timers,
                  console, lastToast, nSubmits, editsLeft >>

\* the promise of form.trigger resolves (before any other event is handled):
\* the entries of the named fields are replaced
TriggerResolves ==
  /\ pc = "validating"
  /\ errors' = ErrorsAfter(triggerNames, errors, values, fieldsOfInterest)
  /\ pc' = "idle"
  /\ triggerNames' = {}
  /\ lastEvent' = Event("validated", "")
  /\ UNCHANGED << activeTab, isSubmitting, extracurriculars, newActivity,
                  values, fieldsOfInterest, financialAid, isSubmitted, timers,
                  console, lastToast, nSubmits, editsLeft >>

(***************************************************************************)
(* Submission                                                              *)
(***************************************************************************)
\* onSubmit(values) with `list` the activities of the render it closes over
onSubmit(list) ==
  /\ isSubmitting' = TRUE
  /\ timers' = Append(timers, [id |-> nSubmits + 1, formData |-> FormData(list)])
  /\ nSubmits' = nSubmits + 1

\* form.handleSubmit(onSubmit) on a submit event: the whole form is validated,
\* the errors are replaced, and onSubmit runs if there are none
handleSubmit(list) ==
  /\ DOMAIN SchemaErrors = {} => nSubmits < MaxSubmits
  /\ errors' = SchemaErrors
  /\ isSubmitted' = TRUE
  /\ IF DOMAIN SchemaErrors = {}
       THEN onSubmit(list)
       ELSE UNCHANGED << isSubmitting, timers, nSubmits >>

\* a click on "Submit Application" (rendered on Additional, disabled while
\* isSubmitting)
SubmitClick ==
  /\ pc = "idle"
  /\ activeTab = "additional"
  /\ ~isSubmitting
  /\ handleSubmit(extracurriculars)
  /\ lastEvent' = Event("submit", "")
  /\ UNCHANGED << activeTab, extracurriculars, newActivity, values,
                  fieldsOfInterest, financialAid, pc, triggerNames, console,
                  lastToast, editsLeft >>

\* Enter in the new-activity input: onKeyDown calls addExtracurricular and
\* does not prevent the default, and the form, which on this tab holds one
\* text input and no submit button, is submitted implicitly
EnterInNewActivity ==
  /\ pc = "idle"
  /\ activeTab = "extracurricular"
  /\ Len(extracurriculars) < MaxActivities
  /\ LET r == addExtracurricular(extracurriculars, newActivity)
     IN  /\ extracurriculars' = r.list
         /\ newActivity' = r.buffer
         /\ handleSubmit(r.list)
  /\ lastEvent' = Event("enter", "")
  /\ UNCHANGED << activeTab, values, fieldsOfInterest, financialAid, pc,
                  triggerNames, console, lastToast, editsLeft >>

\* TimerFires without setIsSubmitting(false)
TimerFiresKeepsFlag ==
  /\ pc = "idle"
  /\ timers # <<>>
  /\ console' = Append(console, Head(timers))
  /\ timers' = Tail(timers)
  /\ lastToast' = "Application Submitted"
  /\ lastEvent' = Event("timer", "")
  /\ UNCHANGED << activeTab, isSubmitting, extracurriculars, newActivity,
                  values, fieldsOfInterest, financialAid, errors, isSubmitted,
                  pc, triggerNames, nSubmits, editsLeft >>

\* TimerFires with the form and the activities list reset on success
TimerFiresResetsForm ==
  /\ pc = "idle"
  /\ timers # <<>>
  /\ console' = Append(console, Head(timers))
  /\ timers' = Tail(timers)
  /\ isSubmitting' = FALSE
  /\ lastToast' = "Application Submitted"
  /\ values' = DefaultValues
  /\ fieldsOfInterest' = <<>>
  /\ financialAid' = FALSE
  /\ extracurriculars' = <<>>
  /\ lastEvent' = Event("timer", "")
  /\ UNCHANGED << activeTab, newActivity, errors, isSubmitted, pc,
                  triggerNames, nSubmits, editsLeft >>

\* TimerFires logging the form as it is when the timer fires, not the formData
\* of the onSubmit that set the timer
TimerFiresLogsCurrent ==
  /\ pc = "idle"
  /\ timers # <<>>
  /\ console' = Append(console, [id |-> Head(timers).id,
                                   formData |-> FormData(extracurriculars)])
  /\ timers' = Tail(timers)
  /\ isSubmitting' = FALSE
  /\ lastToast' = "Application Submitted"
  /\ lastEvent' = Event("timer", "")
  /\ UNCHANGED << activeTab, extracurriculars, newActivity, values,
                  fieldsOfInterest, financialAid, errors, isSubmitted, pc,
                  triggerNames, nSubmits, editsLeft >>

\* the setTimeout callback of the oldest pending onSubmit
TimerFires ==
  /\ pc = "idle"
  /\ timers # <<>>
  /\ console' = Append(console, Head(timers))
  /\ timers' = Tail(timers)
  /\ isSubmitting' = FALSE
  /\ lastToast' = "Application Submitted"
  /\ lastEvent' = Event("timer", "")
  /\ UNCHANGED << activeTab, extracurriculars, newActivity, values,
                  fieldsOfInterest, financialAid, errors, isSubmitted, pc,
                  triggerNames, nSubmits, editsLeft >>

(***************************************************************************)
(* Specification                                                           *)
(***************************************************************************)
Next ==
  \/ \E f \in StringFields : \E v \in FieldInputs(f) : ChangeField(f, v)
  \/ FillSection
  \/ \E field \in FieldsTried : ToggleInterest(field)
  \/ ToggleFinancialAid
  \/ \E v \in ActivityInputs : ChangeNewActivity(v)
  \/ \E index \in 0..(MaxActivities - 1) : RemoveActivity(index)
  \/ \E tab \in Tabs : TabClick(tab)
  \/ PreviousClick
  \/ NextClick
  \/ TriggerResolves
  \/ SubmitClick
  \/ EnterInNewActivity
  \/ TimerFires

Spec == Init /\ [][Next]_vars

\* the promise of form.trigger resolves once the click handler has returned,
\* and a timer that is due fires when the event loop is next idle, however
\* many events the user keeps raising
LiveSpec ==
  /\ Init
  /\ [][Next]_vars
  /\ WF_vars(TriggerResolves)
  /\ SF_vars(TimerFires)

(***************************************************************************)
(* Properties                                                              *)
(***************************************************************************)
\* the required fields of a section: the ones its Next button validates
Required(tab) == TriggerFields(tab)

\* the required fields of a section whose current value breaks its rule
Invalid(tab) == { f \in Required(tab) : FieldIssue(f) # "" }

Successor(tab) == TabOrder[TabIndex(tab) + 1]

Predecessor(tab) == TabOrder[TabIndex(tab) - 1]

\* C1: a click on Next on a section with an invalid required field leaves the
\* active section as it is, and once its validation has resolved every invalid
\* field of the section has a non-empty error entry
C1_NextBlockedWhenInvalid ==
  [][ /\ (lastEvent'.kind = "next" /\ Invalid(activeTab) # {})
           => activeTab' = activeTab
      /\ lastEvent'.kind = "validated"
           => \A f \in triggerNames :
                FieldIssue(f) # "" => (f \in DOMAIN errors' /\ errors'[f] # "")
    ]_vars

\* C2: a single click on Next on a section whose required fields are all valid
\* makes the immediate successor the active section, whatever errors an
\* earlier attempt left behind
C2_NextAdvancesWhenValid ==
  [][ (lastEvent'.kind = "next" /\ Invalid(activeTab) = {})
        => activeTab' = Successor(activeTab)
    ]_vars

\* C3: the errors nextTab consults on a Next click are the result of the bulk
\* validation of the section's current values: a required field has an entry
\* exactly when its current value breaks its rule
C3_DecisionUsesFreshValidation ==
  [][ lastEvent'.kind = "next"
        => \A f \in Required(activeTab) :
             (f \in DOMAIN errors) <=> (FieldIssue(f) # "")
    ]_vars

\* C4: a click on Previous is possible on every section but the first, makes
\* the immediate predecessor the active section, and leaves every field value
\* and the activities list as they were
C4_PreviousKeepsValues ==
  [][ lastEvent'.kind = "previous"
        => /\ activeTab # "personal"
           /\ activeTab' = Predecessor(activeTab)
           /\ values' = values
           /\ fieldsOfInterest' = fieldsOfInterest
           /\ financialAid' = financialAid
           /\ extracurriculars' = extracurriculars
    ]_vars

\* C4's case: Previous has led back to a section while errors are recorded,
\* a field holds a value that breaks its rule and an activity is listed
C4_Witness ==
  /\ lastEvent.kind = "previous"
  /\ DOMAIN errors # {}
  /\ \E f \in StringFields : values[f] # <<>> /\ FieldIssue(f) # ""
  /\ activeTab = "academic"

\* C5 as stated: the initial section is Personal, and every step that changes
\* the active section leads to its immediate successor or predecessor
C5_NoSkipping ==
  /\ activeTab = "personal"
  /\ [][ activeTab' # activeTab
           => \/ TabIndex(activeTab') = TabIndex(activeTab) + 1
              \/ TabIndex(activeTab') = TabIndex(activeTab) - 1
       ]_vars

\* C5 as amended: the initial section is Personal; a click on Next leads to the
\* immediate successor or nowhere, a click on Previous to the immediate
\* predecessor, and only a click on a tab of the strip changes the active
\* section otherwise
C5_ButtonsStepByOne ==
  /\ activeTab = "personal"
  /\ [][ /\ lastEvent'.kind = "next"
              => activeTab' \in { activeTab, Successor(activeTab) }
         /\ lastEvent'.kind = "previous"
              => activeTab' = Predecessor(activeTab)
         /\ activeTab' # activeTab
              => lastEvent'.kind \in { "next", "previous", "tab" }
       ]_vars

\* C5's case: a click on Next has moved from Academic to Parent
C5_Witness ==
  /\ lastEvent.kind = "next"
  /\ pc = "validating"
  /\ triggerNames = TriggerFields("academic")
  /\ activeTab = "parent"

\* C6: a click on a tab makes that tab's section the active one, starts no
\* validation and leaves the error entries as they were
C6_TabClickUnchecked ==
  [][ lastEvent'.kind = "tab"
        => /\ activeTab' = lastEvent'.arg
           /\ errors' = errors
           /\ pc' = "idle"
           /\ triggerNames' = {}
    ]_vars

\* C6's case: a tab click has led to Research from an earlier section whose
\* required fields are all invalid, and no error is recorded
C6_Witness ==
  /\ lastEvent = Event("tab", "research")
  /\ activeTab = "research"
  /\ \A tab \in { "personal", "academic", "parent" } : Invalid(tab) = Required(tab)
  /\ errors = NoErrors

\* C7: onSubmit runs only while the active section is Additional
C7_SubmitOnlyFromAdditional ==
  [][ nSubmits' # nSubmits => activeTab = "additional" ]_vars

\* C8: at most one submission is outstanding, and isSubmitting is true while
\* one is
C8_OneSubmissionOutstanding ==
  /\ Len(timers) <= 1
  /\ timers # <<>> => isSubmitting

\* the submissions still pending, and the ones whose callback has run
Pending == { timers[i].id : i \in 1..Len(timers) }

Completed == { console[i].id : i \in 1..Len(console) }

\* C9: every submission started completes: it leaves the pending ones, its
\* payload is logged, isSubmitting is false and "Application Submitted" is the
\* notification shown
C9_SubmissionCompletes ==
  \A id \in 1..MaxSubmits :
    (id \in Pending)
      ~> /\ id \in Completed
         /\ id \notin Pending
         /\ ~isSubmitting
         /\ lastToast = "Application Submitted"

\* C9's case: a submission has completed
C9_Witness ==
  /\ lastEvent.kind = "timer"
  /\ Completed # {}
  /\ ~isSubmitting
  /\ lastToast = "Application Submitted"

\* C10: the completion callback leaves the field values, the activities list,
\* the activity input buffer, the active section and the recorded errors as
\* they were
C10_CompletionKeepsForm ==
  [][ lastEvent'.kind = "timer"
        => /\ values' = values
           /\ fieldsOfInterest' = fieldsOfInterest
           /\ financialAid' = financialAid
           /\ extracurriculars' = extracurriculars
           /\ newActivity' = newActivity
           /\ activeTab' = activeTab
           /\ errors' = errors
    ]_vars

\* C10's case: a completion callback has run on a filled-in form with an
\* activity listed and text in the activity input
C10_Witness ==
  /\ lastEvent.kind = "timer"
  /\ \A tab \in Tabs : Invalid(tab) = {}
  /\ values["motivation"] # <<>>
  /\ extracurriculars # <<>>

\* the elements of a sequence
Range(seq) == { seq[i] : i \in 1..Len(seq) }

\* a text of blanks only (the empty text included)
Blank(s) == \A i \in 1..Len(s) : s[i] = " "

\* the string fields the schema gives a minimum length
RequiredStrings == { f \in StringFields : MinLength(f) > 0 }

\* what the schema checks of a payload: the selection holds one to three
\* fields of the vocabulary, the activities list at most five entries, every
\* field passes the rule of formSchema, financialAid is a boolean
PassesSchema(p) ==
  /\ Len(p.fieldsOfInterest) \in 1..MaxInterests
  /\ Range(p.fieldsOfInterest) \subseteq Range(FIELDS_OF_INTEREST)
  /\ Len(p.extracurriculars) \in 0..MaxActivities
  /\ \A f \in AllFields : IssueOf(f, p.values, p.fieldsOfInterest) = ""
  /\ p.financialAid \in BOOLEAN

\* the ApplicationDraft invariants on a payload: the above, and every
\* required text field is non-empty once trimmed
DraftOK(p) ==
  /\ PassesSchema(p)
  /\ \A f \in RequiredStrings : ~Blank(p.values[f])

\* C11: every payload handed over by onSubmit satisfies the ApplicationDraft
\* invariants, and its extracurriculars is the activities list of the state
\* the submission leaves, whatever the navigation before it
C11_PayloadSatisfiesDraft ==
  [][ nSubmits' # nSubmits
        => LET p == timers'[Len(timers')].formData
           IN  /\ DraftOK(p)
               /\ p.extracurriculars = extracurriculars'
    ]_vars

(***************************************************************************)
(* The activities editor on its own: addExtracurricular and                *)
(* removeExtracurricular applied to every list and buffer, the calls at    *)
(* capacity and with an index out of range included                        *)
(***************************************************************************)
\* the indices removeExtracurricular is called with: one below the range and
\* one above it included
RemoveIndices == (0 - 1)..MaxActivities

\* disabled={extracurriculars.length >= 5} of the new-activity input
InputDisabled == Len(extracurriculars) >= MaxActivities

\* the paragraph "You have reached the maximum of 5 activities." is rendered
MaxMessageShown == Len(extracurriculars) >= MaxActivities

\* the Activities section just opened on a fresh form
EditorInit ==
  /\ activeTab = "extracurricular"
  /\ isSubmitting = FALSE
  /\ extracurriculars = <<>>
  /\ newActivity = <<>>
  /\ values = DefaultValues
  /\ fieldsOfInterest = <<>>
  /\ financialAid = FALSE
  /\ errors = NoErrors
  /\ isSubmitted = FALSE
  /\ pc = "idle"
  /\ triggerNames = {}
  /\ timers = <<>>
  /\ console = <<>>
  /\ lastToast = ""
  /\ nSubmits = 0
  /\ editsLeft = 0
  /\ lastEvent = Event("mount", "")

\* setNewActivity(e.target.value)
SetNewActivity(v) ==
  /\ v # newActivity
  /\ newActivity' = v
  /\ lastEvent' = Event("typeActivity", "")
  /\ UNCHANGED << activeTab, isSubmitting, extracurriculars, values,
                  fieldsOfInterest, financialAid, errors, isSubmitted, pc,
                  triggerNames, timers, console, lastToast, nSubmits, editsLeft >>

\* AddCall raising a toast when the list is full
AddCallNotifies ==
  /\ LET r == addExtracurricular(extracurriculars, newActivity)
     IN  /\ extracurriculars' = r.list
         /\ newActivity' = r.buffer
  /\ lastToast' = IF Len(extracurriculars) >= MaxActivities
                    THEN "Maximum Activities Reached" ELSE lastToast
  /\ lastEvent' = Event("add", "")
  /\ UNCHANGED << activeTab, isSubmitting, values, fieldsOfInterest,
                  financialAid, errors, isSubmitted, pc, triggerNames, timers,
                  console, nSubmits, editsLeft >>

\* a call of addExtracurricular()
AddCall ==
  /\ LET r == addExtracurricular(extracurriculars, newActivity)
     IN  /\ extracurriculars' = r.list
         /\ newActivity' = r.buffer
  /\ lastEvent' = Event("add", "")
  /\ UNCHANGED << activeTab, isSubmitting, values, fieldsOfInterest,
                  financialAid, errors, isSubmitted, pc, triggerNames, timers,
                  console, lastToast, nSubmits, editsLeft >>

\* a call of removeExtracurricular(index)
RemoveCall(index) ==
  /\ extracurriculars' = removeExtracurricular(extracurriculars, index)
  /\ lastEvent' = Event("remove", index)
  /\ UNCHANGED << activeTab, isSubmitting, newActivity, values,
                  fieldsOfInterest, financialAid, errors, isSubmitted, pc,
                  triggerNames, timers, console, lastToast, nSubmits, editsLeft >>

EditorNext ==
  \/ \E v \in ActivityInputs : SetNewActivity(v)
  \/ AddCall
  \/ \E index \in RemoveIndices : RemoveCall(index)

EditorSpec == EditorInit /\ [][EditorNext]_vars

\* t is s without the blanks at its two ends
IsTrimOf(t, s) ==
  /\ \E i, j \in 0..Len(s) : s = Chars(i, " ") \o t \o Chars(j, " ")
  /\ t # <<>> => (t[1] # " " /\ t[Len(t)] # " ")

\* C12: the activities list never holds more than 5 entries; an add of
\* non-empty text makes the list one longer while it holds fewer than 5, and
\* an add while it holds 5 (the sixth) changes neither list nor input buffer
C12_CapacityKept ==
  /\ [](Len(extracurriculars) \in 0..MaxActivities)
  /\ [][ lastEvent'.kind = "add"
           => /\ (~Blank(newActivity) /\ Len(extracurriculars) < MaxActivities)
                   => Len(extracurriculars') = Len(extracurriculars) + 1
              /\ Len(extracurriculars) = MaxActivities
                   => /\ extracurriculars' = extracurriculars
                      /\ newActivity' = newActivity
       ]_vars

\* C12's case: an add of non-empty text was made while the list held 5
\* entries: it still holds 5 and the text is still in the buffer
C12_Witness ==
  /\ lastEvent.kind = "add"
  /\ Len(extracurriculars) = MaxActivities
  /\ ~Blank(newActivity)

\* C13: an add with a buffer that is not blank, below capacity, appends the
\* buffer without its outer blanks to the end of the list and empties the
\* buffer; an add with a blank buffer or at capacity changes neither
C13_AddAppendsTrimmed ==
  [][ lastEvent'.kind = "add"
        => IF ~Blank(newActivity) /\ Len(extracurriculars) < MaxActivities
             THEN /\ Len(extracurriculars') = Len(extracurriculars) + 1
                  /\ SubSeq(extracurriculars', 1, Len(extracurriculars))
                       = extracurriculars
                  /\ IsTrimOf(extracurriculars'[Len(extracurriculars')],
                              newActivity)
                  /\ newActivity' = <<>>
             ELSE /\ extracurriculars' = extracurriculars
                  /\ newActivity' = newActivity
    ]_vars

\* C13's case: the buffer " b " was added after another entry: "b" is the
\* last entry and the buffer is empty
C13_Witness ==
  /\ lastEvent.kind = "add"
  /\ Len(extracurriculars) >= 2
  /\ extracurriculars[Len(extracurriculars)] = << "b" >>
  /\ extracurriculars[1] = << "a" >>
  /\ newActivity = <<>>

\* C14: a remove with an index in range gives the list without the entry at
\* that position, the entries before it in place and the ones after it moved
\* down by one; a remove with an index out of range leaves the list as it is
C14_RemoveDeletesAtIndex ==
  [][ lastEvent'.kind = "remove"
        => LET index == lastEvent'.arg
               old == extracurriculars
               new == extracurriculars'
           IN  IF index \in 0..(Len(old) - 1)
                 THEN /\ Len(new) = Len(old) - 1
                      /\ \A k \in 1..index : new[k] = old[k]
                      /\ \A k \in (index + 1)..Len(new) : new[k] = old[k + 1]
                 ELSE new = old
    ]_vars

\* C14's case: the first of three or more entries was removed, and the entry
\* now first differs from the one now second
C14_Witness ==
  /\ lastEvent = Event("remove", 0)
  /\ Len(extracurriculars) >= 2
  /\ extracurriculars[1] # extracurriculars[2]

\* C17 as stated: an add while the list holds 5 entries raises a notification
\* and is otherwise ignored
C17_CapacityNotifies ==
  [][ (lastEvent'.kind = "add" /\ Len(extracurriculars) = MaxActivities)
        => /\ lastToast' # ""
           /\ extracurriculars' = extracurriculars
           /\ newActivity' = newActivity
    ]_vars

\* C17 as amended: an add while the list holds 5 entries raises no
\* notification and changes neither list nor buffer; the full list shows in
\* the disabled input and the message rendered under it
C17_CapacitySilent ==
  [][ (lastEvent'.kind = "add" /\ Len(extracurriculars) = MaxActivities)
        => /\ lastToast' = lastToast
           /\ extracurriculars' = extracurriculars
           /\ newActivity' = newActivity
           /\ InputDisabled' /\ MaxMessageShown'
    ]_vars

\* C17's case: an add was made while the list held 5 entries, and no toast
\* has been raised
C17_Witness ==
  /\ lastEvent.kind = "add"
  /\ Len(extracurriculars) = MaxActivities
  /\ newActivity # <<>>
  /\ lastToast = ""

(***************************************************************************)
(* The field-of-interest selector on its own: any number of clicks on the  *)
(* checkboxes of the Research section                                      *)
(***************************************************************************)
\* the Research section just opened on a fresh form
SelectorInit ==
  /\ activeTab = "research"
  /\ isSubmitting = FALSE
  /\ extracurriculars = <<>>
  /\ newActivity = <<>>
  /\ values = DefaultValues
  /\ fieldsOfInterest = <<>>
  /\ financialAid = FALSE
  /\ errors = NoErrors
  /\ isSubmitted = FALSE
  /\ pc = "idle"
  /\ triggerNames = {}
  /\ timers = <<>>
  /\ console = <<>>
  /\ lastToast = ""
  /\ nSubmits = 0
  /\ editsLeft = 0
  /\ lastEvent = Event("mount", "")

\* a click on the checkbox of `field`: onCheckedChange(checked), where checked
\* is the opposite of what the box shows
CheckboxClick(field) ==
  /\ activeTab = "research"
  /\ LET r == onCheckedChange(fieldsOfInterest, field,
                              ~Includes(fieldsOfInterest, field))
     IN  /\ fieldsOfInterest' = r.value
         /\ lastToast' = IF r.toast # "" THEN r.toast ELSE lastToast
         /\ errors' = IF r.toast # "" THEN errors
                      ELSE ErrorsAfterChange({"fieldsOfInterest"}, values, r.value)
  /\ lastEvent' = Event("toggle", field)
  /\ UNCHANGED << activeTab, isSubmitting, extracurriculars, newActivity,
                  values, financialAid, isSubmitted, pc, triggerNames, timers,
                  console, nSubmits, editsLeft >>

SelectorNext == \E field \in FieldsTried : CheckboxClick(field)

SelectorSpec == SelectorInit /\ [][SelectorNext]_vars

\* the position of x in a sequence that holds it
Pos(seq, x) == CHOOSE i \in 1..Len(seq) : seq[i] = x

\* C15: a toggle of a field that is not selected appends it while fewer than
\* 3 are selected, and with 3 selected leaves the selection as it is and
\* raises the capacity toast; a toggle of a selected field removes it,
\* whatever the count, and raises no toast
C15_ToggleSelectsOrRemoves ==
  [][ lastEvent'.kind = "toggle"
        => LET field == lastEvent'.arg
               sel == fieldsOfInterest
           IN  IF field \notin Range(sel)
                 THEN IF Len(sel) < MaxInterests
                        THEN /\ fieldsOfInterest' = sel \o << field >>
                             /\ lastToast' = lastToast
                        ELSE /\ fieldsOfInterest' = sel
                             /\ lastToast' = "Maximum Selection Reached"
                 ELSE /\ Range(fieldsOfInterest') = Range(sel) \ { field }
                      /\ Len(fieldsOfInterest') = Len(sel) - 1
                      /\ lastToast' = lastToast
    ]_vars

\* C15's case: with 3 fields selected a fourth was refused, and then one of
\* the 3 was removed by a toggle
C15_Witness ==
  /\ lastEvent.kind = "toggle"
  /\ lastEvent.arg \notin Range(fieldsOfInterest)
  /\ Len(fieldsOfInterest) = MaxInterests - 1
  /\ lastToast = "Maximum Selection Reached"

\* C16: the selection always holds at most 3 entries, all distinct and all of
\* the vocabulary; every step keeps the entries that stay in their order and
\* puts a new entry last; a fourth distinct field leaves the 3 selected as
\* they are and raises the capacity toast
C16_SelectionBounded ==
  /\ [] /\ Len(fieldsOfInterest) <= MaxInterests
        /\ Cardinality(Range(fieldsOfInterest)) = Len(fieldsOfInterest)
        /\ Range(fieldsOfInterest) \subseteq Range(FIELDS_OF_INTEREST)
  /\ [][ /\ \A x, y \in Range(fieldsOfInterest) \cap Range(fieldsOfInterest') :
               Pos(fieldsOfInterest, x) < Pos(fieldsOfInterest, y)
                 => Pos(fieldsOfInterest', x) < Pos(fieldsOfInterest', y)
         /\ \A x \in Range(fieldsOfInterest') \ Range(fieldsOfInterest) :
               Pos(fieldsOfInterest', x) = Len(fieldsOfInterest')
         /\ ( /\ lastEvent'.kind = "toggle"
              /\ Len(fieldsOfInterest) = MaxInterests
              /\ lastEvent'.arg \notin Range(fieldsOfInterest) )
               => /\ fieldsOfInterest' = fieldsOfInterest
                  /\ lastToast' = "Maximum Selection Reached"
       ]_vars

\* C16's case: Biology, Business and Chemistry were selected in that order and
\* Computer Science was refused with the capacity toast
C16_Witness ==
  /\ lastEvent = Event("toggle", "Computer Science")
  /\ fieldsOfInterest = << "Biology", "Business", "Chemistry" >>
  /\ lastToast = "Maximum Selection Reached"

(***************************************************************************)
(* Properties of validation and of the payload                             *)
(***************************************************************************)
\* C18: a validation leaves an error entry for every required string field
\* it covers whose value is blank (empty once trimmed), whatever its length
C18_BlankRejected ==
  [][ /\ lastEvent'.kind = "validated"
           => \A f \in triggerNames \cap RequiredStrings :
                Blank(values[f]) => f \in DOMAIN errors'
      /\ lastEvent'.kind \in { "submit", "enter" }
           => \A f \in RequiredStrings :
                Blank(values[f]) => f \in DOMAIN errors'
    ]_vars

\* the fields whose inputs a section renders
SectionFields(tab) ==
  TabInputs(tab) \cup (IF tab = "research" THEN { "fieldsOfInterest" } ELSE {})

\* C19: a click on Next starts a validation of fields of the active section
\* only and changes no error entry itself; when the validation resolves, the
\* entries of all other fields are as they were, and neither step changes a
\* field value, the activities list or the activity input
C19_NextValidatesOwnSection ==
  [][ /\ lastEvent'.kind = "next"
           => /\ triggerNames' \subseteq SectionFields(activeTab)
              /\ errors' = errors
      /\ lastEvent'.kind = "validated"
           => \A f \in AllFields \ triggerNames :
                /\ (f \in DOMAIN errors') <=> (f \in DOMAIN errors)
                /\ f \in DOMAIN errors => errors'[f] = errors[f]
      /\ lastEvent'.kind \in { "next", "validated" }
           => /\ values' = values
              /\ fieldsOfInterest' = fieldsOfInterest
              /\ financialAid' = financialAid
              /\ extracurriculars' = extracurriculars
              /\ newActivity' = newActivity
    ]_vars

\* C19's case: the validation of Academic has resolved and recorded an error
\* for gpa, while email, of Personal, keeps the entry of an earlier validation
\* though its value is valid now
C19_Witness ==
  /\ lastEvent.kind = "validated"
  /\ "gpa" \in DOMAIN errors
  /\ "email" \in DOMAIN errors
  /\ FieldIssue("email") = ""

\* C20: the payload of a submission is the field values and the activities
\* list of the moment onSubmit ran; no step changes a pending payload, the
\* completion logs the payload of the oldest pending submission as it was
\* set aside, and what was logged stays as it is
C20_PayloadIsSnapshot ==
  [][ /\ nSubmits' # nSubmits
           => LET p == timers'[Len(timers')].formData
              IN  /\ p.values = values
                  /\ p.fieldsOfInterest = fieldsOfInterest
                  /\ p.financialAid = financialAid
                  /\ p.extracurriculars = extracurriculars'
      /\ \A i \in 1..Len(timers) :
           \/ timers[i] \in Range(timers')
           \/ /\ lastEvent'.kind = "timer"
              /\ i = 1
              /\ console'[Len(console')] = timers[1]
      /\ \A i \in 1..Len(console) : console'[i] = console[i]
    ]_vars

\* C20's case: a submission has completed after the activities list was
\* changed while it was pending: the payload logged holds the list of the
\* moment of submission, not the current one
C20_Witness ==
  /\ lastEvent.kind = "timer"
  /\ console # <<>>
  /\ console[Len(console)].formData.extracurriculars # extracurriculars
  /\ console[Len(console)].formData.extracurriculars # <<>>

====
